---- MODULE Spec2Model ----
(***************************************************************************)
(* Model of src/index.tsx: the inventory ingestion pipeline of the App     *)
(* component (fetchSheet with its two relays, the GVIZ envelope handling,  *)
(* parseGvizData) and the local stock model (updateProductStock and the    *)
(* read-only action stubs).                                                *)
(*                                                                         *)
(* JavaScript strings are TLA+ strings; the string methods the code calls  *)
(* (indexOf, lastIndexOf, substring, split, trim, toUpperCase, parseFloat) *)
(* are operators over them with JavaScript's 0-based semantics.            *)
(***************************************************************************)
EXTENDS Integers, Sequences, FiniteSets, TLC

\* ------------------------------------------------------------------------
\* JavaScript string primitives
\* ------------------------------------------------------------------------

\* s.charAt(i), 0-based; "" outside the string.
CharAt(s, i) == IF i >= 0 /\ i < Len(s) THEN SubSeq(s, i + 1, i + 1) ELSE ""

\* s.startsWith(sub, i)
StartsWithAt(s, sub, i) ==
    /\ i >= 0
    /\ i + Len(sub) <= Len(s)
    /\ SubSeq(s, i + 1, i + Len(sub)) = sub

\* The 0-based positions at which sub occurs in s.
Occurrences(s, sub) == {i \in 0..(Len(s) - Len(sub)) : StartsWithAt(s, sub, i)}

\* s.indexOf(sub): index of the first occurrence, -1 when there is none.
IndexOf(s, sub) ==
    LET hits == Occurrences(s, sub)
    IN  IF hits = {} THEN -1 ELSE CHOOSE i \in hits : \A j \in hits : i <= j

\* s.lastIndexOf(sub): index of the last occurrence, -1 when there is none.
LastIndexOf(s, sub) ==
    LET hits == Occurrences(s, sub)
    IN  IF hits = {} THEN -1 ELSE CHOOSE i \in hits : \A j \in hits : i >= j

\* s.includes(sub)
Includes(s, sub) == IndexOf(s, sub) # -1

Clamp(n, len) == IF n < 0 THEN 0 ELSE IF n > len THEN len ELSE n

\* s.substring(a, b): both ends clamped to [0, length], swapped when a > b.
Substring(s, a, b) ==
    LET ca == Clamp(a, Len(s))
        cb == Clamp(b, Len(s))
        lo == IF ca <= cb THEN ca ELSE cb
        hi == IF ca <= cb THEN cb ELSE ca
    IN  SubSeq(s, lo + 1, hi)

LowerLetters == "abcdefghijklmnopqrstuvwxyz"
UpperLetters == "ABCDEFGHIJKLMNOPQRSTUVWXYZ"

MapChar(ch, from, to) ==
    LET i == IndexOf(from, ch)
    IN  IF ch # "" /\ i # -1 THEN CharAt(to, i) ELSE ch

RECURSIVE MapString(_, _, _)
MapString(s, from, to) ==
    IF s = "" THEN ""
    ELSE MapChar(Head(s), from, to) \o MapString(Tail(s), from, to)

\* s.toUpperCase() and s.toLowerCase() over the letters a-z.
ToUpperCase(s) == MapString(s, LowerLetters, UpperLetters)
ToLowerCase(s) == MapString(s, UpperLetters, LowerLetters)

IsSpace(ch) == ch \in {" ", "\t"}

RECURSIVE TrimStart(_)
TrimStart(s) ==
    IF s # "" /\ IsSpace(Head(s)) THEN TrimStart(Tail(s)) ELSE s

RECURSIVE TrimEnd(_)
TrimEnd(s) ==
    IF s # "" /\ IsSpace(CharAt(s, Len(s) - 1))
    THEN TrimEnd(SubSeq(s, 1, Len(s) - 1))
    ELSE s

\* s.trim()
Trim(s) == TrimEnd(TrimStart(s))

RECURSIVE SplitFrom(_, _, _)
SplitFrom(s, cur, acc) ==
    IF s = "" THEN Append(acc, cur)
    ELSE IF Head(s) \in {",", "/"} THEN SplitFrom(Tail(s), "", Append(acc, cur))
    ELSE SplitFrom(Tail(s), cur \o Head(s), acc)

\* s.split(/[,/]/): the pieces between separators, empty pieces included.
SplitSizes(s) == SplitFrom(s, "", <<>>)

\* arr.map(s => s.trim()).filter(s => s): the trimmed pieces that are not empty.
RECURSIVE TrimAndDropEmpty(_)
TrimAndDropEmpty(seq) ==
    IF seq = <<>> THEN <<>>
    ELSE IF Trim(Head(seq)) # "" THEN <<Trim(Head(seq))>> \o TrimAndDropEmpty(Tail(seq))
    ELSE TrimAndDropEmpty(Tail(seq))

\* ------------------------------------------------------------------------
\* Numbers: parseFloat, `|| 0`, Math.floor, Array(n), String(n)
\* ------------------------------------------------------------------------

Digits == "0123456789"
IsDigit(ch) == ch # "" /\ IndexOf(Digits, ch) # -1

RECURSIVE DigitPrefix(_)
DigitPrefix(s) ==
    IF s # "" /\ IsDigit(Head(s)) THEN Head(s) \o DigitPrefix(Tail(s)) ELSE ""

RECURSIVE DigitsToNat(_, _)
DigitsToNat(s, acc) ==
    IF s = "" THEN acc
    ELSE DigitsToNat(Tail(s), acc * 10 + IndexOf(Digits, Head(s)))

RECURSIVE AllZeros(_)
AllZeros(s) == s = "" \/ (Head(s) = "0" /\ AllZeros(Tail(s)))

NaN == [kind |-> "nan", neg |-> FALSE, ip |-> 0, frac |-> FALSE]

\* The digits after the "." that follows the integer digits ip of body; ""
\* when no "." follows them.
FractionDigits(body, ip) ==
    IF CharAt(body, Len(ip)) = "."
    THEN DigitPrefix(SubSeq(body, Len(ip) + 2, Len(body)))
    ELSE ""

\* The number an unsigned literal starts with: "Infinity", or the longest
\* decimal prefix (integer digits ip, fraction digits fp); NaN when there is
\* neither.
ParseUnsigned(neg, body, ip, fp) ==
    IF StartsWithAt(body, "Infinity", 0)
    THEN [kind |-> "inf", neg |-> neg, ip |-> 0, frac |-> FALSE]
    ELSE IF ip = "" /\ fp = "" THEN NaN
    ELSE [kind |-> "fin", neg |-> neg, ip |-> DigitsToNat(ip, 0), frac |-> ~AllZeros(fp)]

ParseSigned(neg, body) ==
    ParseUnsigned(neg, body, DigitPrefix(body), FractionDigits(body, DigitPrefix(body)))

ParseTrimmed(t) ==
    IF CharAt(t, 0) \in {"-", "+"} /\ t # ""
    THEN ParseSigned(CharAt(t, 0) = "-", Tail(t))
    ELSE ParseSigned(FALSE, t)

\* parseFloat(s): leading white space skipped, an optional sign, then
\* "Infinity" or the longest decimal prefix; NaN when no such prefix exists.
\* A number is kept as its sign, its integer part and whether its fraction is
\* non-zero, which is all Math.floor reads. The stock fields of the model
\* carry no exponent part.
ParseFloat(s) == ParseTrimmed(TrimStart(s))

\* x || 0 for a number: NaN, 0 and -0 are falsy.
OrZero(x) ==
    IF x.kind = "nan" \/ (x.kind = "fin" /\ x.ip = 0 /\ ~x.frac)
    THEN [kind |-> "fin", neg |-> FALSE, ip |-> 0, frac |-> FALSE]
    ELSE x

\* Math.floor(x) of a finite number (an infinity is returned unchanged by the
\* caller): rounds towards minus infinity.
MathFloor(x) ==
    IF x.neg THEN (IF x.frac THEN -(x.ip + 1) ELSE -(x.ip)) ELSE x.ip

\* Whether Array(Math.floor(x)) throws RangeError("Invalid array length"): the
\* length is infinite or negative. (A length above 2^32 - 1 throws as well; the
\* quantities of the model stay far below it.)
ArrayThrows(x) ==
    \/ x.kind = "inf"
    \/ MathFloor(x) < 0

RECURSIVE NatToString(_)
NatToString(n) ==
    IF n < 10 THEN CharAt(Digits, n)
    ELSE NatToString(n \div 10) \o CharAt(Digits, n % 10)

\* String(n) for an integer n.
IntToString(n) == IF n < 0 THEN "-" \o NatToString(-n) ELSE NatToString(n)

\* ------------------------------------------------------------------------
\* The decoded GVIZ payload (src/index.tsx:56-69)
\* ------------------------------------------------------------------------

\* A GVIZ cell: null, or an object whose v is null, absent, a string or an
\* integer. Every cell is one record shape; only the fields its kind names
\* are read.
NullCell   == [k |-> "null",  s |-> "", n |-> 0]
VNullCell  == [k |-> "vnull", s |-> "", n |-> 0]
NoVCell    == [k |-> "nov",   s |-> "", n |-> 0]
StrCell(s) == [k |-> "str",   s |-> s,  n |-> 0]
NumCell(n) == [k |-> "num",   s |-> "", n |-> n]

\* A row with its cell array c, and a row object that has no c at all.
Row(cells) == [hasC |-> TRUE, c |-> cells]
RowWithoutC == [hasC |-> FALSE, c |-> <<>>]

\* The decoded payload: null, a value with no table ({}), or {table: {rows}}.
NullDoc        == [k |-> "null",    rows |-> <<>>]
NoTableDoc     == [k |-> "notable", rows |-> <<>>]
TableDoc(rows) == [k |-> "table",   rows |-> rows]

\* getVal(idx): "" for a missing or null cell and for v === null, otherwise
\* String(v); String(undefined) is "undefined".
getVal(c, idx) ==
    IF idx >= Len(c) \/ c[idx + 1].k = "null" THEN ""
    ELSE CASE c[idx + 1].k = "vnull" -> ""
           [] c[idx + 1].k = "nov"   -> "undefined"
           [] c[idx + 1].k = "str"   -> c[idx + 1].s
           [] c[idx + 1].k = "num"   -> IntToString(c[idx + 1].n)

\* ------------------------------------------------------------------------
\* parseGvizData (src/index.tsx:52-115)
\* ------------------------------------------------------------------------

\* The values generateId() can return: Math.random() gives no guarantee that
\* two calls differ, so a call returns any member of this set.
GeneratedIds == {"k3x9a", "q7m2b"}

\* Upper bound on the generateId() calls of one build.
MaxGenerated == 2

\* The outcomes of the successive generateId() calls of one build.
RandomStreams == [1..MaxGenerated -> GeneratedIds]

HeaderCaption == "NOMBRE PRODUCTO"

\* Array(n).fill(null).map(() => ({id: generateId(), status: 'available'})):
\* n units, the i-th taking the (k+i)-th generated id.
MakeUnits(n, rnd, k) ==
    [i \in 1..n |-> [id |-> rnd[k + i], status |-> "available"]]

\* sizeList.map(sizeName => {units, size}): every size gets n fresh units.
MakeSizes(sizeList, n, rnd, k) ==
    [j \in 1..Len(sizeList) |->
        [size |-> sizeList[j], units |-> MakeUnits(n, rnd, k + (j - 1) * n)]]

OrDefault(s, dflt) == IF s = "" THEN dflt ELSE s

NoProduct ==
    [id |-> "", name |-> "", description |-> "", gender |-> "", imageUrl |-> "",
     price |-> "", sizes |-> <<>>]

\* The callback of rows.map for one row, with k generated ids already used:
\* null for a row to skip, a Product, or the RangeError of Array(n).
ParseRow(row, rnd, k) ==
    LET c         == row.c
        rawId     == getVal(c, 0)
        rawName   == getVal(c, 1)
        rawDesc   == getVal(c, 2)
        rawGender == getVal(c, 3)
        rawUrl    == getVal(c, 4)
        rawSizes  == getVal(c, 5)
        rawStock  == getVal(c, 6)
        stockQty  == OrZero(ParseFloat(rawStock))
        sizeList  == TrimAndDropEmpty(SplitSizes(rawSizes))
        n         == MathFloor(stockQty)
        used      == Len(sizeList) * n
    IN  IF ~row.hasC \/ Len(c) < 2
        THEN [kind |-> "null", product |-> NoProduct, used |-> 0]
        ELSE IF rawName = "" \/ Includes(ToUpperCase(rawName), HeaderCaption)
        THEN [kind |-> "null", product |-> NoProduct, used |-> 0]
        ELSE IF sizeList # <<>> /\ ArrayThrows(stockQty)
        THEN [kind |-> "throw", product |-> NoProduct, used |-> 0]
        ELSE [kind |-> "product",
              product |->
                [id |-> IF rawId # "" THEN rawId ELSE rnd[k + used + 1],
                 name |-> rawName,
                 description |-> rawDesc,
                 gender |-> OrDefault(ToLowerCase(rawGender), "unisex"),
                 imageUrl |-> rawUrl,
                 price |-> "",
                 sizes |-> MakeSizes(sizeList, n, rnd, k)],
              used |-> used + (IF rawId # "" THEN 0 ELSE 1)]

\* rows.map(...).filter(p => p !== null), left to right: the products of the
\* rows that are not skipped, or the exception of the first row that throws.
RECURSIVE MapRows(_, _, _, _)
MapRows(rows, rnd, k, acc) ==
    IF rows = <<>> THEN [threw |-> FALSE, message |-> "", products |-> acc]
    ELSE LET r == ParseRow(Head(rows), rnd, k)
         IN  IF r.kind = "throw"
             THEN [threw |-> TRUE, message |-> "Invalid array length", products |-> <<>>]
             ELSE MapRows(Tail(rows), rnd, k + r.used,
                          IF r.kind = "product" THEN Append(acc, r.product) ELSE acc)

\* parseGvizData(jsonData) under the generated ids rnd: jsonData.table?.rows
\* || [] throws TypeError on a null jsonData and is [] without a table.
parseGvizData(jsonData, rnd) ==
    IF jsonData.k = "null"
    THEN [threw |-> TRUE,
          message |-> "Cannot read properties of null (reading 'table')",
          products |-> <<>>]
    ELSE MapRows(IF jsonData.k = "table" THEN jsonData.rows ELSE <<>>, rnd, 0, <<>>)

\* ------------------------------------------------------------------------
\* The feed text: the GVIZ envelope and its JSON payload
\* ------------------------------------------------------------------------

RECURSIVE JoinWithComma(_)
JoinWithComma(seq) ==
    IF seq = <<>> THEN ""
    ELSE IF Len(seq) = 1 THEN Head(seq)
    ELSE Head(seq) \o "," \o JoinWithComma(Tail(seq))

\* The JSON text of a cell, of a row and of a payload, as the feed writes them
\* (the strings of the model hold no character that JSON escapes).
CellJson(cell) ==
    CASE cell.k = "null"  -> "null"
      [] cell.k = "vnull" -> "{\"v\":null}"
      [] cell.k = "nov"   -> "{\"f\":\"\"}"
      [] cell.k = "str"   -> "{\"v\":\"" \o cell.s \o "\"}"
      [] cell.k = "num"   -> "{\"v\":" \o IntToString(cell.n) \o "}"

RowJson(row) ==
    IF row.hasC
    THEN "{\"c\":[" \o JoinWithComma([i \in 1..Len(row.c) |-> CellJson(row.c[i])]) \o "]}"
    ELSE "{}"

DocJson(doc) ==
    CASE doc.k = "null"    -> "null"
      [] doc.k = "notable" -> "{\"version\":\"0.6\",\"status\":\"error\"}"
      [] doc.k = "table"   ->
            "{\"version\":\"0.6\",\"status\":\"ok\",\"table\":{\"rows\":["
            \o JoinWithComma([i \in 1..Len(doc.rows) |-> RowJson(doc.rows[i])])
            \o "]}}"

\* The rows the sheet can hold.
HeaderRow ==
    Row(<<StrCell("ID"), StrCell("Nombre Producto"), StrCell("Descripcion"),
          StrCell("Genero"), StrCell("URL"), StrCell("Talla"), StrCell("Stock")>>)
NoteRow      == Row(<<NullCell, StrCell("ver nombre producto arriba")>>)
PoloRow      ==
    Row(<<StrCell("A1"), StrCell("Polo"), StrCell("Algodon"), StrCell("NINA"),
          VNullCell, StrCell("S/ M"), StrCell("1.7")>>)
SameIdRow    ==
    Row(<<StrCell("A1"), StrCell("Polo azul"), NullCell, NullCell, NullCell,
          StrCell("S"), NullCell>>)
PairRow      ==
    Row(<<StrCell("B7"), StrCell("Gorro"), NullCell, StrCell("unisex"),
          StrCell("http://img/b7"), StrCell("U, ,"), NumCell(2)>>)
AnonRow      ==
    Row(<<NullCell, StrCell("Sin codigo"), NullCell, NullCell, NullCell,
          StrCell("M,M"), StrCell("pronto")>>)
NegativeRow  ==
    Row(<<StrCell("N1"), StrCell("Devuelto"), NullCell, NullCell, NullCell,
          StrCell("M"), NumCell(-1)>>)
FractionRow  ==
    Row(<<StrCell("N2"), StrCell("Medias"), NullCell, NullCell, NullCell,
          StrCell("U"), StrCell("-0.5")>>)
InfiniteRow  ==
    Row(<<StrCell("N3"), StrCell("Saldo"), NullCell, NullCell, NullCell,
          StrCell("U"), StrCell("Infinity")>>)
ShortRow     == Row(<<StrCell("X1")>>)
EmptyNameRow == Row(<<StrCell("Z9"), VNullCell, StrCell("sin nombre")>>)
BlankNameRow == Row(<<StrCell("W1"), StrCell("  ")>>)

\* The payloads the feed can carry: four sheets that build products, a
\* sheet with no product row, three whose stock cannot be an array length,
\* and the payload null.
StockSheet     == TableDoc(<<HeaderRow, ShortRow, PairRow>>)
SameIdSheet    == TableDoc(<<PoloRow, EmptyNameRow, SameIdRow>>)
AnonSheet      == TableDoc(<<AnonRow, RowWithoutC, AnonRow>>)
HeaderOnlySheet == TableDoc(<<HeaderRow, NoteRow, ShortRow>>)
BlankNameSheet == TableDoc(<<BlankNameRow>>)
JsonDocs ==
    { StockSheet, SameIdSheet, AnonSheet, HeaderOnlySheet, BlankNameSheet,
      TableDoc(<<PoloRow, NegativeRow>>),
      TableDoc(<<FractionRow>>),
      TableDoc(<<InfiniteRow>>),
      NullDoc }

\* JSON.parse(text): the payload whose JSON text is `text`; SyntaxError for a
\* text that is the JSON of no payload of the model.
JsonParse(text) ==
    IF \E d \in JsonDocs : DocJson(d) = text
    THEN [ok |-> TRUE, value |-> CHOOSE d \in JsonDocs : DocJson(d) = text, message |-> ""]
    ELSE [ok |-> FALSE, value |-> NullDoc,
          message |-> IF text = "" THEN "Unexpected end of JSON input"
                      ELSE "Unexpected token " \o CharAt(text, 0) \o " in JSON at position 0"]

Marker == "google.visualization.Query.setResponse("

\* The feed's answer for a payload: the callback wrapper around its JSON.
Envelope(doc) == "/*O_o*/\n" \o Marker \o DocJson(doc) \o ");"

Pad8   == "/*    */"
Pad64  == Pad8 \o Pad8 \o Pad8 \o Pad8 \o Pad8 \o Pad8 \o Pad8 \o Pad8
Pad512 == Pad64 \o Pad64 \o Pad64 \o Pad64 \o Pad64 \o Pad64 \o Pad64 \o Pad64

\* The texts a relay can hand back: the envelope of every payload, and texts
\* that are not an envelope (bare JSON, the empty text, a marker around
\* something that is not JSON, an envelope behind a long prefix).
RawTexts ==
    { Envelope(d) : d \in JsonDocs }
    \cup { DocJson(StockSheet),
           "",
           Marker \o "<html>);",
           Pad512 \o Envelope(HeaderOnlySheet) }

\* ------------------------------------------------------------------------
\* The App component's state (src/index.tsx:119-127)
\* ------------------------------------------------------------------------

\* A value of type string | null.
Null    == [isNull |-> TRUE,  s |-> ""]
Some(s) == [isNull |-> FALSE, s |-> s]

\* INITIAL_PRODUCTS: the placeholder shown until the first snapshot arrives
\* (it has no price field; the model writes the absent price as "").
INITIAL_PRODUCTS ==
    << [id |-> "p1", name |-> "Cargando inventario...",
        description |-> "Conectando con Google Sheets...", gender |-> "unisex",
        imageUrl |-> "", price |-> "", sizes |-> <<>>] >>

\* How many fetchSheet calls can be running at once.
MaxOverlap == 2
Cycles == 1..MaxOverlap

VARIABLES
    products,   \* useState products: the snapshot
    loading,    \* useState loading
    error,      \* useState error: string | null
    debugData,  \* useState debugData: string | null
    rendered,   \* the products value of the last render, which the handlers
                \* of that render (updateProductStock) read from their closure
    mounted,    \* whether the mount effect has run
    pc,         \* pc[c]: where fetchSheet call c is suspended
    requests    \* the relay requests in flight: [cycle, relay]

vars == <<products, loading, error, debugData, rendered, mounted, pc, requests>>

Init ==
    /\ products = INITIAL_PRODUCTS
    /\ loading = TRUE
    /\ error = Null
    /\ debugData = Null
    /\ rendered = INITIAL_PRODUCTS
    /\ mounted = FALSE
    /\ pc = [c \in Cycles |-> "idle"]
    /\ requests = {}

\* ------------------------------------------------------------------------
\* fetchSheet (src/index.tsx:128-196)
\* ------------------------------------------------------------------------

ConnectionErrorPrefix == "Error de conexión. "
AllProxiesFailedMessage ==
    "No se pudo conectar. Verifica que la hoja esté compartida como 'Cualquiera con el enlace puede ver'."
EmptyResultMessage ==
    "Conexión exitosa a la pestaña 'Inventario', pero no se encontraron filas de productos. Revisa que haya datos debajo de los encabezados."
UnexpectedResponseMessage ==
    "Respuesta inesperada de Google. Verifica permisos de la hoja."

\* jsonStart + 39: the length of the marker.
MarkerLength == 39
\* jsonText.substring(0, 500)
PreviewLength == 500

Request(c, relay) == [cycle |-> c, relay |-> relay]

\* What a relay request can settle with: fetch rejects, the response is not
\* ok, reading the body rejects, the body has no `contents` field (primary
\* relay only), or the body carries a text.
PrimaryResponses ==
    { [kind |-> k, text |-> ""] : k \in {"reject", "notok", "badbody", "nocontents"} }
    \cup { [kind |-> "ok", text |-> t] : t \in RawTexts }
BackupResponses ==
    { [kind |-> k, text |-> ""] : k \in {"reject", "notok", "badbody"} }
    \cup { [kind |-> "ok", text |-> t] : t \in RawTexts }

\* The primary strategy had it no test of response.ok (line 146): a non-ok
\* answer is read like any other, and so is a body without contents.
PrimaryErrorIgnoringStatus(resp) ==
    CASE resp.kind = "reject"     -> "Failed to fetch"
      [] resp.kind = "badbody"    -> "Unexpected token < in JSON at position 0"
      [] resp.kind \in {"notok", "nocontents", "ok"} -> ""

\* The exception the primary strategy ends with (lines 140-153), "" when it
\* obtained a text: a rejected fetch, a non-ok status, a body that is not
\* JSON, or a missing or empty `contents`.
PrimaryError(resp) ==
    CASE resp.kind = "reject"     -> "Failed to fetch"
      [] resp.kind = "notok"      -> "AllOrigins Error"
      [] resp.kind = "badbody"    -> "Unexpected token < in JSON at position 0"
      [] resp.kind = "nocontents" -> "No content"
      [] resp.kind = "ok"         -> IF resp.text = "" THEN "No content" ELSE ""

\* The exception the backup strategy ends with (lines 156-161), "" when it
\* obtained a text.
BackupError(resp) ==
    CASE resp.kind = "reject"  -> "Failed to fetch"
      [] resp.kind = "notok"   -> "CorsProxy Error"
      [] resp.kind = "badbody" -> "network error"
      [] resp.kind = "ok"      -> ""

\* The outer catch: setError("Error de conexión. " + err.message).
Caught(message) ==
    [branch |-> "caught", replace |-> FALSE, products |-> <<>>,
     error |-> Some(ConnectionErrorPrefix \o message)]

\* Lines 170-192 had they no test of jsonStart (line 173): a text without
\* the marker is decoded whole.
AfterRetrievalWithoutMarkerTest(jsonText, rnd) ==
    LET jsonStart     == IndexOf(jsonText, Marker)
        cleanJson     == IF jsonStart = -1 THEN jsonText
                         ELSE Substring(jsonText, jsonStart + MarkerLength,
                                        LastIndexOf(jsonText, ")"))
        parsed        == JsonParse(cleanJson)
        sheetProducts == parseGvizData(parsed.value, rnd)
    IN  IF ~parsed.ok THEN Caught(parsed.message)
        ELSE IF sheetProducts.threw THEN Caught(sheetProducts.message)
        ELSE IF Len(sheetProducts.products) > 0
        THEN [branch |-> "replaced", replace |-> TRUE,
              products |-> sheetProducts.products, error |-> Null]
        ELSE [branch |-> "empty", replace |-> FALSE, products |-> <<>>,
              error |-> Some(EmptyResultMessage)]

\* Lines 170-192 for the text jsonText and the generated ids rnd: which branch
\* is taken, whether setProducts is called and with what, and the setError
\* argument.
AfterRetrieval(jsonText, rnd) ==
    LET jsonStart     == IndexOf(jsonText, Marker)
        cleanJson     == Substring(jsonText, jsonStart + MarkerLength,
                                   LastIndexOf(jsonText, ")"))
        parsed        == JsonParse(cleanJson)
        sheetProducts == parseGvizData(parsed.value, rnd)
    IN  IF jsonStart = -1
        THEN [branch |-> "nomarker", replace |-> FALSE, products |-> <<>>,
              error |-> Some(UnexpectedResponseMessage)]
        ELSE IF ~parsed.ok THEN Caught(parsed.message)
        ELSE IF sheetProducts.threw THEN Caught(sheetProducts.message)
        ELSE IF Len(sheetProducts.products) > 0
        THEN [branch |-> "replaced", replace |-> TRUE,
              products |-> sheetProducts.products, error |-> Null]
        ELSE [branch |-> "empty", replace |-> FALSE, products |-> <<>>,
              error |-> Some(EmptyResultMessage)]

\* Lines 168-192 tabulated once over the texts and the generated ids of the
\* model: the preview handed to setDebugData and the outcome of the rest.
OutcomeTable ==
    { [text |-> t, rnd |-> rnd,
       preview |-> Substring(t, 0, PreviewLength) \o "...",
       out |-> AfterRetrieval(t, rnd)] : t \in RawTexts, rnd \in RandomStreams }

Outcome(jsonText, rnd) ==
    CHOOSE e \in OutcomeTable : e.text = jsonText /\ e.rnd = rnd

\* For every text, one run of generated ids for each different outcome the
\* ids can give it: the runs that differ only in ids the build never draws,
\* or draws to the same effect, are one case.
DistinctRuns ==
    UNION { { [text |-> t,
               rnd  |-> CHOOSE r \in RandomStreams : Outcome(t, r).out = o] :
                 o \in { Outcome(t, r).out : r \in RandomStreams } } :
            t \in RawTexts }

\* A snapshot has been set that App has not rendered yet. React renders as
\* soon as the event loop is free: the model lets a user event that is
\* already queued run before that render (the handlers of the previous render
\* are still attached), and delivers network events and further refreshes
\* after it.
RenderPending == rendered # products

\* Lines 128-159 had the two relays been asked at once.
FetchSheetStartRacing(c) ==
    /\ ~RenderPending
    /\ pc[c] = "idle"
    /\ loading' = TRUE
    /\ error' = Null
    /\ requests' = requests \cup {Request(c, "allorigins"), Request(c, "corsproxy")}
    /\ pc' = [pc EXCEPT ![c] = "primary"]
    /\ UNCHANGED <<products, debugData, rendered>>

\* Lines 128-145: setLoading(true), setError(null), and the request to the
\* primary relay goes out.
FetchSheetStart(c) ==
    /\ ~RenderPending
    /\ pc[c] = "idle"
    /\ loading' = TRUE
    /\ error' = Null
    /\ requests' = requests \cup {Request(c, "allorigins")}
    /\ pc' = [pc EXCEPT ![c] = "primary"]
    /\ UNCHANGED <<products, debugData, rendered>>

\* Lines 168-195 had setProducts been called on every path: a cycle that
\* builds nothing stores the empty list.
FinishAlwaysStoring(c, jsonText, rnd) ==
    LET out == Outcome(jsonText, rnd).out
    IN  /\ debugData' = Some(Outcome(jsonText, rnd).preview)
        /\ products' = out.products
        /\ error' = out.error
        /\ loading' = FALSE
        /\ pc' = [pc EXCEPT ![c] = "idle"]
        /\ UNCHANGED rendered

\* Lines 168-195 had line 180 merged the build into the snapshot instead of
\* replacing it.
FinishAppending(c, jsonText, rnd) ==
    LET out == Outcome(jsonText, rnd).out
    IN  /\ debugData' = Some(Outcome(jsonText, rnd).preview)
        /\ products' = IF out.replace THEN products \o out.products ELSE products
        /\ error' = out.error
        /\ loading' = FALSE
        /\ pc' = [pc EXCEPT ![c] = "idle"]
        /\ UNCHANGED rendered

\* Lines 168-195 had line 168 come after the build, next to setProducts: a
\* cycle that ends in an error keeps the earlier preview.
FinishPreviewOnSuccess(c, jsonText, rnd) ==
    LET out == Outcome(jsonText, rnd).out
    IN  /\ debugData' = IF out.replace THEN Some(Outcome(jsonText, rnd).preview)
                        ELSE debugData
        /\ products' = IF out.replace THEN out.products ELSE products
        /\ error' = out.error
        /\ loading' = FALSE
        /\ pc' = [pc EXCEPT ![c] = "idle"]
        /\ UNCHANGED rendered

\* Lines 168-195 without the finally block of lines 193-195.
FinishWithoutFinally(c, jsonText, rnd) ==
    LET out == Outcome(jsonText, rnd).out
    IN  /\ debugData' = Some(Outcome(jsonText, rnd).preview)
        /\ products' = IF out.replace THEN out.products ELSE products
        /\ error' = out.error
        /\ pc' = [pc EXCEPT ![c] = "idle"]
        /\ UNCHANGED <<loading, rendered>>

\* Lines 168-195 once a text is in hand: the preview, the envelope, the
\* build, the snapshot or the error, and finally setLoading(false).
Finish(c, jsonText, rnd) ==
    LET out == Outcome(jsonText, rnd).out
    IN  /\ debugData' = Some(Outcome(jsonText, rnd).preview)
        /\ products' = IF out.replace THEN out.products ELSE products
        /\ error' = out.error
        /\ loading' = FALSE
        /\ pc' = [pc EXCEPT ![c] = "idle"]
        /\ UNCHANGED rendered

\* The primary request settles (lines 145-154; the awaits of fetch and of
\* response.json() touch no state between them and are one step). On a
\* failure the backup request goes out at once; otherwise the rest of
\* fetchSheet runs to its end without suspending.
PrimarySettles(c, resp, rnd) ==
    /\ ~RenderPending
    /\ pc[c] = "primary"
    /\ IF PrimaryError(resp) # ""
       THEN /\ requests' = (requests \ {Request(c, "allorigins")})
                             \cup {Request(c, "corsproxy")}
            /\ pc' = [pc EXCEPT ![c] = "backup"]
            /\ UNCHANGED <<products, loading, error, debugData, rendered>>
       ELSE /\ requests' = requests \ {Request(c, "allorigins")}
            /\ Finish(c, resp.text, rnd)
    /\ UNCHANGED mounted

\* The backup request settles (lines 159-166, then 190-195 or 168-195).
BackupSettles(c, resp, rnd) ==
    /\ ~RenderPending
    /\ pc[c] = "backup"
    /\ requests' = requests \ {Request(c, "corsproxy")}
    /\ IF BackupError(resp) # ""
       THEN /\ error' = Caught(AllProxiesFailedMessage).error
            /\ loading' = FALSE
            /\ pc' = [pc EXCEPT ![c] = "idle"]
            /\ UNCHANGED <<products, debugData, rendered>>
       ELSE Finish(c, resp.text, rnd)
    /\ UNCHANGED mounted

\* useEffect(() => { fetchSheet(); }, []) (lines 198-200).
Mount ==
    /\ ~mounted
    /\ mounted' = TRUE
    /\ FetchSheetStart(1)

\* resetData (lines 216-218): another fetchSheet call, whether or not an
\* earlier one is still running.
resetData ==
    /\ mounted
    /\ \E c \in Cycles :
        /\ pc[c] = "idle"
        /\ \A d \in Cycles : d < c => pc[d] # "idle"
        /\ FetchSheetStart(c)
    /\ UNCHANGED mounted

\* React renders App again with the current products; the handlers it hands
\* to AdminView close over that value.
Render ==
    /\ RenderPending
    /\ rendered' = products
    /\ UNCHANGED <<products, loading, error, debugData, mounted, pc, requests>>

\* ------------------------------------------------------------------------
\* The local stock model (src/index.tsx:204-234, 759-770)
\* ------------------------------------------------------------------------

\* Line 225 had it marked the unit sold whatever newStatus is.
SetUnitStatusAlwaysSold(units, unitId, newStatus) ==
    [i \in 1..Len(units) |->
        IF units[i].id = unitId THEN [units[i] EXCEPT !.status = "sold"]
        ELSE units[i]]

\* newSizes[sizeIndex].units.map(u => u.id === unitId ? {...u, status} : u)
SetUnitStatus(units, unitId, newStatus) ==
    [i \in 1..Len(units) |->
        IF units[i].id = unitId THEN [units[i] EXCEPT !.status = newStatus]
        ELSE units[i]]

\* The callback of products.map in updateProductStock for a product whose
\* sizes have the 0-based index sizeIndex.
UpdateProduct(p, productId, sizeIndex, unitId, newStatus) ==
    IF p.id # productId THEN p
    ELSE [p EXCEPT !.sizes[sizeIndex + 1].units =
                        SetUnitStatus(@, unitId, newStatus)]

\* products.map(...) of updateProductStock over the captured snapshot prods:
\* newSizes[sizeIndex] is undefined for a product with the id whose sizes do
\* not reach sizeIndex, and reading .units of it throws TypeError before
\* setProducts is called.
UpdateProductStock(prods, productId, sizeIndex, unitId, newStatus) ==
    IF \E i \in 1..Len(prods) :
            /\ prods[i].id = productId
            /\ (sizeIndex < 0 \/ sizeIndex >= Len(prods[i].sizes))
    THEN [threw |-> TRUE, products |-> prods]
    ELSE [threw |-> FALSE,
          products |-> [i \in 1..Len(prods) |->
                UpdateProduct(prods[i], productId, sizeIndex, unitId, newStatus)]]

\* updateProductStock called from a handler of the last render as the only
\* call of its task: setProducts with the mapped captured snapshot, and React
\* renders before the next event; nothing happens when the map throws.
CallUpdateProductStock(productId, sizeIndex, unitId, newStatus) ==
    LET r == UpdateProductStock(rendered, productId, sizeIndex, unitId, newStatus)
    IN  /\ products' = IF r.threw THEN products ELSE r.products
        /\ rendered' = IF r.threw THEN rendered ELSE r.products
        /\ UNCHANGED <<loading, error, debugData, mounted, pc, requests>>

Flip(status) == IF status = "available" THEN "sold" ELSE "available"

\* The unit button of AdminView (lines 759-770): the ids, the size index and
\* the status all come from the rendered snapshot.
UnitButtonClick ==
    \E pi \in 1..Len(rendered) :
      \E si \in 1..Len(rendered[pi].sizes) :
        \E ui \in 1..Len(rendered[pi].sizes[si].units) :
            LET u == rendered[pi].sizes[si].units[ui]
            IN  CallUpdateProductStock(rendered[pi].id, si - 1, u.id, Flip(u.status))

\* The arguments a caller of actions.updateProductStock can pass.
ProductIdArgs == {"A1", "B7", "zz"}
SizeIndexArgs == {-1, 0, 1}
UnitIdArgs    == GeneratedIds \cup {"zz"}

\* updateProductStock called from a handler of the last render, up to the
\* return of setProducts: React (createRoot, lines 2 and 790) renders the new
\* state after the task that made the call, so until then `products` in the
\* handlers is still the captured snapshot, and a later call made before that
\* render maps the same captured snapshot again and replaces the pending
\* value.
QueueUpdateProductStock(productId, sizeIndex, unitId, newStatus) ==
    LET r == UpdateProductStock(rendered, productId, sizeIndex, unitId, newStatus)
    IN  /\ products' = IF r.threw THEN products ELSE r.products
        /\ UNCHANGED <<rendered, loading, error, debugData, mounted, pc, requests>>

\* The calls of actions.updateProductStock the model makes: each product id
\* is that of no product in some snapshot, each unit id that of no unit in
\* some bucket, and index 1 is outside the sizes of some product.
Calls ==
    [productId : {"A1", "B7"}, sizeIndex : {0, 1},
     unitId : GeneratedIds, newStatus : {"available", "sold"}]

\* actions.updateProductStock with any arguments; the render follows in its
\* own step.
updateProductStock ==
    \E call \in Calls :
        QueueUpdateProductStock(call.productId, call.sizeIndex, call.unitId,
                                call.newStatus)

\* Lines 204-206 had addProduct stored the product instead of refusing.
addProductStoring ==
    /\ Len(products) < 3
    /\ products' = Append(products, INITIAL_PRODUCTS[1])
    /\ UNCHANGED <<loading, error, debugData, rendered, mounted, pc, requests>>

\* The rejected and empty actions (lines 204-214, 231-234): an alert, or
\* nothing at all.
addProduct       == UNCHANGED vars
editProduct      == UNCHANGED vars
deleteProduct    == UNCHANGED vars
addSizeToProduct == UNCHANGED vars
updateSizeName   == UNCHANGED vars
deleteSize       == UNCHANGED vars
addUnitToSize    == UNCHANGED vars

\* A request settles with any response; the build, when the step reaches
\* it, draws any ids.
PrimarySettled ==
    \E c \in Cycles, resp \in PrimaryResponses, run \in DistinctRuns :
        /\ run.text = resp.text
        /\ PrimarySettles(c, resp, run.rnd)

BackupSettled ==
    \E c \in Cycles, resp \in BackupResponses, run \in DistinctRuns :
        /\ run.text = resp.text
        /\ BackupSettles(c, resp, run.rnd)

Next ==
    \/ Mount
    \/ resetData
    \/ PrimarySettled
    \/ BackupSettled
    \/ Render
    \/ UnitButtonClick
    \/ updateProductStock
    \/ addProduct
    \/ editProduct
    \/ deleteProduct
    \/ addSizeToProduct
    \/ updateSizeName
    \/ deleteSize
    \/ addUnitToSize

Spec == Init /\ [][Next]_vars

\* The responses of a relay, each with every run of generated ids that makes
\* a difference to its text.
PrimaryRuns ==
    UNION { { [resp |-> r, rnd |-> run.rnd] :
                r \in { q \in PrimaryResponses : q.text = run.text } } :
            run \in DistinctRuns }

BackupRuns ==
    UNION { { [resp |-> r, rnd |-> run.rnd] :
                r \in { q \in BackupResponses : q.text = run.text } } :
            run \in DistinctRuns }

\* The request of cycle c to a relay settles, whatever the response.
PrimarySettlesOf(c) ==
    /\ pc[c] = "primary"
    /\ \E x \in PrimaryRuns : PrimarySettles(c, x.resp, x.rnd)

BackupSettlesOf(c) ==
    /\ pc[c] = "backup"
    /\ \E x \in BackupRuns : BackupSettles(c, x.resp, x.rnd)

\* The program when every request a cycle awaits (lines 145, 159) resolves or
\* rejects in the end, and React renders a state it was given: the
\* continuation of an await runs once its promise has settled, however often
\* other events come in between.
FairSpec ==
    /\ Spec
    /\ WF_vars(Render)
    /\ \A c \in Cycles : SF_vars(PrimarySettlesOf(c)) /\ SF_vars(BackupSettlesOf(c))

\* ------------------------------------------------------------------------
\* What a cycle is expected to do with the text it obtained
\* ------------------------------------------------------------------------

\* The text between the marker and the last ")" of a text that has the marker.
Payload(t) == Substring(t, IndexOf(t, Marker) + Len(Marker), LastIndexOf(t, ")"))

\* The payload a text decodes to; not ok without the marker.
Decode(t) ==
    IF Includes(t, Marker) THEN JsonParse(Payload(t))
    ELSE [ok |-> FALSE, value |-> NullDoc, message |-> ""]

\* How a cycle that obtained the text t ends.
CycleEnd(t, rnd) ==
    IF ~Includes(t, Marker) THEN "no-marker"
    ELSE IF ~Decode(t).ok THEN "undecodable"
    ELSE IF parseGvizData(Decode(t).value, rnd).threw THEN "build-threw"
    ELSE IF parseGvizData(Decode(t).value, rnd).products = <<>> THEN "no-products"
    ELSE "built"

\* The rows a build is to keep: at least two cells, a name, and no header
\* caption in the name.
NameField(row) == getVal(row.c, 1)

Survives(row) ==
    /\ row.hasC
    /\ Len(row.c) >= 2
    /\ NameField(row) # ""
    /\ ~Includes(ToUpperCase(NameField(row)), HeaderCaption)

RECURSIVE SurvivingRows(_)
SurvivingRows(rows) ==
    IF rows = <<>> THEN <<>>
    ELSE (IF Survives(Head(rows)) THEN <<Head(rows)>> ELSE <<>>)
         \o SurvivingRows(Tail(rows))

\* Every text of the model, with every run of generated ids that makes a
\* difference to it: the preview of the text, the payload it decodes to, the
\* build of that payload, the rows of the payload that are to survive, and
\* the way the cycle ends.
Retrieved ==
    { [text    |-> run.text,
       rnd     |-> run.rnd,
       preview |-> Substring(run.text, 0, PreviewLength) \o "...",
       decoded |-> Decode(run.text).ok,
       doc     |-> Decode(run.text).value,
       build   |-> parseGvizData(Decode(run.text).value, run.rnd),
       kept    |-> SurvivingRows(Decode(run.text).value.rows),
       end     |-> CycleEnd(run.text, run.rnd)] : run \in DistinctRuns }

TextResponse(t) == [kind |-> "ok", text |-> t]

\* The responses with which the primary strategy fails: a rejected fetch, a
\* non-ok status, an unreadable body, no contents field, empty contents.
PrimaryFailures ==
    { [kind |-> k, text |-> ""] : k \in {"reject", "notok", "badbody", "nocontents", "ok"} }

\* The responses with which the backup strategy fails.
BackupFailures ==
    { [kind |-> k, text |-> ""] : k \in {"reject", "notok", "badbody"} }

\* The step in which cycle c obtains the text of e from the primary relay, or
\* from the backup relay, and runs to its end.
PrimaryObtains(c, e) ==
    /\ pc[c] = "primary"
    /\ pc'[c] = "idle"
    /\ debugData' = Some(e.preview)
    /\ PrimarySettles(c, TextResponse(e.text), e.rnd)

BackupObtains(c, e) ==
    /\ pc[c] = "backup"
    /\ pc'[c] = "idle"
    /\ debugData' = Some(e.preview)
    /\ BackupSettles(c, TextResponse(e.text), e.rnd)

Obtains(c, e) == PrimaryObtains(c, e) \/ BackupObtains(c, e)

\* The step in which the primary request of cycle c fails.
PrimaryFails(c) ==
    /\ pc[c] = "primary"
    /\ \E resp \in PrimaryFailures, run \in DistinctRuns :
          run.text = resp.text /\ PrimarySettles(c, resp, run.rnd)

\* The step in which the backup request of cycle c fails.
BackupFails(c) ==
    /\ pc[c] = "backup"
    /\ \E resp \in BackupFailures, run \in DistinctRuns :
          run.text = resp.text /\ BackupSettles(c, resp, run.rnd)

\* The step is one of cycle c.
Steps(c) == pc'[c] # pc[c]

\* The step sends the backup request of cycle c.
BackupIssued(c) ==
    /\ Request(c, "corsproxy") \notin requests
    /\ Request(c, "corsproxy") \in requests'

\* The message of a cycle whose two relays failed.
RetrievalErrorText == ConnectionErrorPrefix \o AllProxiesFailedMessage

\* The messages of the exceptions the two strategies can end with.
UnderlyingMessages ==
    ({PrimaryError(r) : r \in PrimaryResponses} \cup {BackupError(r) : r \in BackupResponses})
    \ {""}

RetrievalErrorQuotesNoException ==
    \A m \in UnderlyingMessages : ~Includes(RetrievalErrorText, m)

MessagesDiffer ==
    Cardinality({RetrievalErrorText, UnexpectedResponseMessage, EmptyResultMessage}) = 3

AllAvailable(prods) ==
    \A i \in 1..Len(prods) : \A j \in 1..Len(prods[i].sizes) :
        \A k \in 1..Len(prods[i].sizes[j].units) :
            prods[i].sizes[j].units[k].status = "available"

SomeUnit(prods, status) ==
    \E i \in 1..Len(prods) : \E j \in 1..Len(prods[i].sizes) :
        \E k \in 1..Len(prods[i].sizes[j].units) :
            prods[i].sizes[j].units[k].status = status

Idle == \A c \in Cycles : pc[c] = "idle"

\* ------------------------------------------------------------------------
\* C1
\* ------------------------------------------------------------------------

\* C1: the step in which the primary request of a cycle settles sends the
\* backup request exactly when the primary strategy failed (rejected fetch,
\* non-ok status, unreadable body, missing or empty contents), and a failed
\* primary leaves the error as it was; a backup request is sent by no other
\* step; a cycle that obtained a text from either relay never sets the
\* retrieval message; the step in which the backup fails sets the error to the
\* fixed guidance, which contains the message of no underlying exception; and
\* the error becomes that guidance only in such a step.
C1_FallbackOrdering ==
    [][\A c \in Cycles :
        /\ Steps(c) =>
              /\ PrimaryFails(c) =>
                    BackupIssued(c) /\ error' = error /\ loading' = loading
              /\ \A e \in Retrieved :
                    PrimaryObtains(c, e) => Request(c, "corsproxy") \notin requests'
              /\ \A e \in Retrieved :
                    Obtains(c, e) => error' # Some(RetrievalErrorText)
              /\ BackupFails(c) =>
                    /\ error' = Some(RetrievalErrorText)
                    /\ RetrievalErrorQuotesNoException
        /\ BackupIssued(c) => PrimaryFails(c)
        /\ (error' = Some(RetrievalErrorText) /\ error' # error) =>
              \E d \in Cycles : BackupFails(d)
      ]_vars

\* Both relays of a cycle have failed and the guidance is shown.
C1_BothRelaysFailed ==
    /\ error = Some(RetrievalErrorText)
    /\ ~loading
    /\ Idle

\* ------------------------------------------------------------------------
\* C2
\* ------------------------------------------------------------------------

\* The last step of a failed cycle c: the snapshot is untouched, no request
\* is sent, and no cycle is started or moved but c, which ends.
FailureFrame(c) ==
    /\ products' = products
    /\ requests' \subseteq requests
    /\ pc' = [pc EXCEPT ![c] = "idle"]

\* C2: a cycle that ends in a failure (both relays failed, no marker in the
\* text, a payload that does not decode, a build that throws or that gives no
\* product) changes the snapshot in none of its steps, sends no further
\* request and starts no cycle when it ends, and ends with a non-null,
\* non-empty error; the error is the retrieval message, the envelope message
\* or the empty-result message according to the failure, and these three
\* differ pairwise.
C2_FailureKeepsSnapshot ==
    [][\A c \in Cycles :
        Steps(c) =>
            /\ BackupFails(c) =>
                  /\ FailureFrame(c)
                  /\ error' = Some(RetrievalErrorText)
            /\ \A e \in Retrieved :
                  (Obtains(c, e) /\ e.end # "built") =>
                      /\ FailureFrame(c)
                      /\ ~error'.isNull
                      /\ error'.s # ""
                      /\ e.end = "no-marker" => error' = Some(UnexpectedResponseMessage)
                      /\ e.end = "no-products" => error' = Some(EmptyResultMessage)
                      /\ MessagesDiffer
            /\ pc'[c] # "idle" => products' = products
      ]_vars

\* A cycle found no product row and the snapshot of an earlier cycle is
\* still there.
C2_FailedAfterSnapshot ==
    /\ error = Some(EmptyResultMessage)
    /\ products # INITIAL_PRODUCTS
    /\ ~loading
    /\ Idle

\* ------------------------------------------------------------------------
\* C3
\* ------------------------------------------------------------------------

\* C3: the step in which a cycle ends with a build of at least one product
\* leaves as the snapshot exactly that build, whatever the snapshot was, with
\* every unit available and the error null.
C3_SuccessReplacesSnapshot ==
    [][\A c \in Cycles : Steps(c) => \A e \in Retrieved :
          (Obtains(c, e) /\ e.end = "built") =>
              /\ products' = e.build.products
              /\ Len(products') > 0
              /\ AllAvailable(products')
              /\ error' = Null
      ]_vars

\* A refresh has just replaced a snapshot in which a unit was sold by the
\* build of another sheet: the last render still shows the sold unit, the
\* stored snapshot has other products and no sold unit.
C3_RefreshDiscardedToggle ==
    /\ SomeUnit(rendered, "sold")
    /\ products # rendered
    /\ products[1].id # rendered[1].id
    /\ AllAvailable(products)
    /\ error = Null
    /\ ~loading

\* ------------------------------------------------------------------------
\* C4
\* ------------------------------------------------------------------------

\* The three ways the arguments of updateProductStock fail to resolve in the
\* snapshot prods: no product has the id; some product has it and the index
\* is outside the sizes of every product that has it; or no bucket the id and
\* the index lead to holds a unit with the unit id.
NoSuchProduct(prods, productId) ==
    \A i \in 1..Len(prods) : prods[i].id # productId

IndexOutside(prods, productId, sizeIndex) ==
    /\ ~NoSuchProduct(prods, productId)
    /\ \A i \in 1..Len(prods) :
          prods[i].id = productId =>
              (sizeIndex < 0 \/ sizeIndex >= Len(prods[i].sizes))

NoSuchUnit(prods, productId, sizeIndex, unitId) ==
    /\ ~NoSuchProduct(prods, productId)
    /\ \A i \in 1..Len(prods) :
          prods[i].id = productId =>
              /\ sizeIndex >= 0
              /\ sizeIndex < Len(prods[i].sizes)
              /\ \A k \in 1..Len(prods[i].sizes[sizeIndex + 1].units) :
                    prods[i].sizes[sizeIndex + 1].units[k].id # unitId

\* C4: in every reachable state, updateProductStock called on the snapshot of
\* the last render with a product id that matches no product, a size index
\* outside the sizes of the matched product, or a unit id that matches no
\* unit of the bucket raises no exception and maps the snapshot to itself.
C4_UnresolvedIsNoOp ==
    \A productId \in ProductIdArgs, sizeIndex \in SizeIndexArgs,
       unitId \in UnitIdArgs, newStatus \in {"available", "sold"} :
        (\/ NoSuchProduct(rendered, productId)
         \/ IndexOutside(rendered, productId, sizeIndex)
         \/ NoSuchUnit(rendered, productId, sizeIndex, unitId))
        => /\ ~UpdateProductStock(rendered, productId, sizeIndex, unitId, newStatus).threw
           /\ UpdateProductStock(rendered, productId, sizeIndex, unitId, newStatus).products
                = rendered

\* ------------------------------------------------------------------------
\* C5
\* ------------------------------------------------------------------------

\* C5: a cycle whose text decodes to a table ends with a product list from
\* the build, whatever the stock quantities of the rows: the build does not
\* throw, and the cycle ends with no error or, when no row survives, with the
\* empty-result message, never with the message of an exception.
C5_BuildNeverFails ==
    [][\A c \in Cycles : \A e \in Retrieved :
          (Obtains(c, e) /\ e.decoded /\ e.doc.k = "table") =>
              /\ ~e.build.threw
              /\ error' \in {Null, Some(EmptyResultMessage)}
      ]_vars

\* ------------------------------------------------------------------------
\* C6
\* ------------------------------------------------------------------------

\* The snapshot prods with the status of the unit at product pi, bucket si,
\* position ui flipped and nothing else changed. A unit is known by its id
\* within its bucket: the units of that bucket that carry the same id are the
\* same unit and flip with it.
WithUnitFlipped(prods, pi, si, ui) ==
    LET units == prods[pi].sizes[si].units
    IN  [prods EXCEPT ![pi].sizes[si].units =
            [k \in 1..Len(units) |->
                IF units[k].id = units[ui].id
                THEN [units[k] EXCEPT !.status = Flip(units[ui].status)]
                ELSE units[k]]]

\* C6: in every reachable state, the toggle of any unit the last render
\* shows (its product id, its bucket index, its unit id, the opposite of its
\* status) raises no exception and gives the snapshot in which exactly that
\* unit has changed its status: all other statuses, all ids, all unit counts,
\* all bucket labels and all other products are as before.
C6_ToggleChangesOneUnit ==
    \A pi \in 1..Len(rendered) :
      \A si \in 1..Len(rendered[pi].sizes) :
        \A ui \in 1..Len(rendered[pi].sizes[si].units) :
            LET u == rendered[pi].sizes[si].units[ui]
                r == UpdateProductStock(rendered, rendered[pi].id, si - 1, u.id,
                                        Flip(u.status))
            IN  /\ ~r.threw
                /\ r.products = WithUnitFlipped(rendered, pi, si, ui)

\* ------------------------------------------------------------------------
\* C7
\* ------------------------------------------------------------------------

\* The step is the click on the available unit at product pi, bucket si,
\* position ui of the last render, and the toggle does not throw.
SoldByClick(pi, si, ui) ==
    LET u == rendered[pi].sizes[si].units[ui]
    IN  /\ u.status = "available"
        /\ ~UpdateProductStock(rendered, rendered[pi].id, si - 1, u.id, "sold").threw
        /\ CallUpdateProductStock(rendered[pi].id, si - 1, u.id, "sold")

\* C7: after the click that turns an available unit sold, the click on the
\* same unit that turns it available again (the next event, so with no
\* refresh in between) raises no exception and gives back the snapshot the
\* first click was made on, with as many units in the bucket.
C7_ToggleTwiceRestores ==
    [][\A pi \in 1..Len(rendered) :
         \A si \in 1..Len(rendered[pi].sizes) :
           \A ui \in 1..Len(rendered[pi].sizes[si].units) :
              SoldByClick(pi, si, ui) =>
                 LET u    == rendered[pi].sizes[si].units[ui]
                     back == UpdateProductStock(rendered', rendered[pi].id, si - 1,
                                                u.id, "available")
                 IN  /\ rendered'[pi].sizes[si].units[ui].status = "sold"
                     /\ ~back.threw
                     /\ back.products = rendered
                     /\ Len(back.products[pi].sizes[si].units)
                          = Len(rendered[pi].sizes[si].units)
      ]_vars

\* A unit has been sold by a click while another is still available.
C7_UnitSold ==
    /\ rendered = products
    /\ SomeUnit(rendered, "sold")
    /\ SomeUnit(rendered, "available")

\* ------------------------------------------------------------------------
\* C8
\* ------------------------------------------------------------------------

\* C8: a cycle that obtained a text without the marker ends with the
\* envelope message, which differs from the retrieval message, and with the
\* snapshot as it was, also when the text is the JSON of a table (the build,
\* which would have replaced the snapshot, is not run); a cycle that obtained
\* a text with the marker whose payload does not decode ends with a non-null
\* error and with the snapshot as it was.
C8_EnvelopeRequired ==
    [][\A c \in Cycles : Steps(c) => \A e \in Retrieved :
          Obtains(c, e) =>
              /\ e.end = "no-marker" =>
                    /\ error' = Some(UnexpectedResponseMessage)
                    /\ UnexpectedResponseMessage # RetrievalErrorText
                    /\ products' = products
              /\ e.end = "undecodable" =>
                    /\ ~error'.isNull
                    /\ products' = products
      ]_vars

\* The preview of a text that is the bare JSON of a sheet with a product row.
BareJsonPreview == Substring(DocJson(StockSheet), 0, PreviewLength) \o "..."

\* A cycle obtained the bare JSON of a table and ended with the envelope
\* message.
C8_BareJsonRejected ==
    /\ debugData = Some(BareJsonPreview)
    /\ error = Some(UnexpectedResponseMessage)
    /\ JsonParse(DocJson(StockSheet)).ok
    /\ ~loading

\* ------------------------------------------------------------------------
\* C9
\* ------------------------------------------------------------------------

\* C9: the build of a decoded table returns one product for each row that
\* has at least two cells, a non-empty name and no header caption in its
\* upper-cased name, none for any other row, in the order of the rows: the
\* names of the products are the names of those rows, one for one.
C9_OutputIsSurvivingRows ==
    [][\A c \in Cycles : \A e \in Retrieved :
          (Obtains(c, e) /\ e.decoded /\ e.doc.k = "table") =>
              /\ ~e.build.threw
              /\ Len(e.build.products) = Len(e.kept)
              /\ \A i \in 1..Len(e.kept) :
                    e.build.products[i].name = NameField(e.kept[i])
      ]_vars

\* ------------------------------------------------------------------------
\* C10
\* ------------------------------------------------------------------------

\* A finite quantity truncated to an integer: the integer part with its sign;
\* 0 for a quantity that is not a number.
Truncated(x) ==
    IF x.kind = "fin" THEN (IF x.neg THEN -(x.ip) ELSE x.ip) ELSE 0

\* The bucket labels a row asks for: the trimmed, non-empty tokens of its
\* size field.
SizeLabels(row) == TrimAndDropEmpty(SplitSizes(getVal(row.c, 5)))

\* The product p has the buckets the row asks for: its labels in order, and
\* in each bucket as many available units as the truncated quantity.
BucketsMatch(p, row) ==
    LET quantity == ParseFloat(getVal(row.c, 6))
    IN  /\ quantity.kind # "inf"
        /\ Len(p.sizes) = Len(SizeLabels(row))
        /\ \A j \in 1..Len(p.sizes) :
              /\ p.sizes[j].size = SizeLabels(row)[j]
              /\ Len(p.sizes[j].units) = Truncated(quantity)
              /\ \A k \in 1..Len(p.sizes[j].units) :
                    p.sizes[j].units[k].status = "available"

\* C10: the build of a decoded table gives every surviving row a product
\* whose buckets are the trimmed non-empty tokens of the size field split on
\* "," and "/", in order and with repetitions, each with exactly N available
\* units, N the quantity of the row truncated to an integer and 0 when the
\* quantity is empty or not a number.
C10_BucketsFromSizesAndQuantity ==
    [][\A c \in Cycles : \A e \in Retrieved :
          (Obtains(c, e) /\ e.decoded /\ e.doc.k = "table") =>
              /\ ~e.build.threw
              /\ Len(e.build.products) = Len(e.kept)
              /\ \A i \in 1..Len(e.kept) : BucketsMatch(e.build.products[i], e.kept[i])
      ]_vars

\* ------------------------------------------------------------------------
\* C11
\* ------------------------------------------------------------------------

\* The identifier field of a row (cell 0 through getVal).
IdField(row) == getVal(row.c, 0)

\* C11: in the snapshot a cycle stores, the product of a row whose identifier
\* field is not empty has that identifier; the product of a row whose
\* identifier field is empty has a non-empty identifier; and the products of
\* two rows of that build whose identifier fields are empty have different
\* identifiers.
C11_IdentifiersKeptOrFresh ==
    [][\A c \in Cycles :
        Steps(c) =>
            \A e \in Retrieved :
                (Obtains(c, e) /\ e.end = "built") =>
                    /\ Len(products') = Len(e.kept)
                    /\ \A i \in 1..Len(e.kept) :
                          IF IdField(e.kept[i]) # ""
                          THEN products'[i].id = IdField(e.kept[i])
                          ELSE products'[i].id # ""
                    /\ \A i, j \in 1..Len(e.kept) :
                          (i < j /\ IdField(e.kept[i]) = "" /\ IdField(e.kept[j]) = "")
                              => products'[i].id # products'[j].id
      ]_vars

\* ------------------------------------------------------------------------
\* C12
\* ------------------------------------------------------------------------

\* C12: every product of the snapshot has a name that is not empty once the
\* white space around it is trimmed: a row whose name field is empty or only
\* white space gives no product.
C12_NamesNotBlank ==
    \A i \in 1..Len(products) : Trim(products[i].name) # ""

\* ------------------------------------------------------------------------
\* C13
\* ------------------------------------------------------------------------

\* The first PreviewLength characters of a text.
FirstCharacters(t) == Substring(t, 0, PreviewLength)

\* The step in which cycle c obtains the text of e from a relay and ends as
\* e ends: with the build of e and no error, or with an error.
ObtainsText(c, e) ==
    /\ pc'[c] = "idle"
    /\ error'.isNull <=> e.end = "built"
    /\ e.end = "built" => products' = e.build.products
    /\ \/ pc[c] = "primary" /\ PrimarySettles(c, TextResponse(e.text), e.rnd)
       \/ pc[c] = "backup" /\ BackupSettles(c, TextResponse(e.text), e.rnd)

\* C13 (as the code has it): the step in which a cycle obtains a text from
\* either relay sets the preview to the first 500 characters of the text
\* followed by "...", however the cycle ends; the steps in which a relay of
\* the cycle fails, and the step that starts the cycle, leave the preview as
\* it was.
C13_PreviewIsPrefixAndEllipsis ==
    [][\A c \in Cycles :
        Steps(c) =>
            /\ \A e \in Retrieved :
                  ObtainsText(c, e) =>
                      debugData' = Some(FirstCharacters(e.text) \o "...")
            /\ (PrimaryFails(c) \/ BackupFails(c) \/ pc[c] = "idle")
                  => debugData' = debugData
      ]_vars

\* C13 (as stated): the step in which a cycle obtains a text from either
\* relay sets the preview to the first 500 characters of the text; a cycle
\* whose relays both fail leaves the preview as it was.
C13_PreviewIsPrefix ==
    [][\A c \in Cycles :
        Steps(c) =>
            /\ \A e \in Retrieved :
                  ObtainsText(c, e) => debugData' = Some(FirstCharacters(e.text))
            /\ (PrimaryFails(c) \/ BackupFails(c)) => debugData' = debugData
      ]_vars

\* The preview of a text longer than 500 characters is still there after a
\* later cycle whose two relays failed.
C13_PreviewOutlivesFailedCycle ==
    /\ ~debugData.isNull
    /\ Len(debugData.s) = PreviewLength + 3
    /\ error = Some(RetrievalErrorText)
    /\ Idle

\* ------------------------------------------------------------------------
\* C14
\* ------------------------------------------------------------------------

\* The step is one of the rejected or empty actions.
RejectedAction ==
    \/ addProduct
    \/ editProduct
    \/ deleteProduct
    \/ addSizeToProduct
    \/ updateSizeName
    \/ deleteSize
    \/ addUnitToSize

\* The step is the end of a cycle that built products.
RefreshSucceeds ==
    \E c \in Cycles : \E e \in Retrieved : Obtains(c, e) /\ e.end = "built"

\* C14: a step of addProduct, editProduct, deleteProduct, addSizeToProduct,
\* updateSizeName, deleteSize or addUnitToSize, in any state, leaves the
\* snapshot, the loading flag, the error and the preview as they were; and a
\* step that changes the snapshot is the end of a cycle that built products
\* or a call of updateProductStock.
C14_RejectedActionsChangeNothing ==
    [][/\ RejectedAction => UNCHANGED <<products, loading, error, debugData>>
       /\ products' # products =>
              RefreshSucceeds \/ UnitButtonClick \/ updateProductStock
      ]_vars

\* The state the rejected actions are called in holds a snapshot from the
\* sheet with a sold unit, an error and a preview.
C14_CalledOnLoadedInventory ==
    /\ products # INITIAL_PRODUCTS
    /\ SomeUnit(products, "sold")
    /\ ~error.isNull
    /\ ~debugData.isNull
    /\ ~loading

\* ------------------------------------------------------------------------
\* C15
\* ------------------------------------------------------------------------

\* The requests of cycle c that have been sent and have not settled.
InFlight(c) == { r \in requests : r.cycle = c }

\* C15: in every state a cycle has at most one request in flight: none when
\* it is not running, the primary request alone while the primary strategy
\* runs, the backup request alone while the backup strategy runs; and the
\* step that sends the backup request of a cycle is the step in which its
\* primary request, in flight until then, settles as a failure.
C15_OneRequestPerCycle ==
    /\ [](\A c \in Cycles :
            /\ Cardinality(InFlight(c)) <= 1
            /\ pc[c] = "idle" => InFlight(c) = {}
            /\ pc[c] = "primary" => InFlight(c) = {Request(c, "allorigins")}
            /\ pc[c] = "backup" => InFlight(c) = {Request(c, "corsproxy")})
    /\ [][\A c \in Cycles :
            BackupIssued(c) =>
                /\ Request(c, "allorigins") \in requests
                /\ Request(c, "allorigins") \notin requests'
                /\ PrimaryFails(c)
         ]_vars

\* The backup request of one cycle and the primary request of another are in
\* flight together.
C15_BackupInFlight ==
    \E c, d \in Cycles :
        /\ InFlight(c) = {Request(c, "corsproxy")}
        /\ InFlight(d) = {Request(d, "allorigins")}

\* ------------------------------------------------------------------------
\* C16
\* ------------------------------------------------------------------------

\* The step ends cycle c with the snapshot replaced by the build of a text.
Replaces(c) ==
    \E e \in Retrieved :
        Obtains(c, e) /\ e.end = "built" /\ products' = e.build.products

\* C16: when every request settles in the end, a cycle that has started
\* ends, and in the state it ends in loading is false; the step that ends it
\* sets loading to false and either replaces the snapshot and leaves the
\* error null, or leaves the snapshot as it was and the error non-null; and
\* no earlier step of the cycle changes the snapshot.
C16_CycleCompletes ==
    /\ \A c \in Cycles : (pc[c] # "idle") ~> (pc[c] = "idle" /\ ~loading)
    /\ [][\A c \in Cycles :
            Steps(c) =>
                IF pc'[c] = "idle"
                THEN /\ loading' = FALSE
                     /\ IF Replaces(c) THEN error' = Null
                        ELSE products' = products /\ ~error'.isNull
                ELSE products' = products
         ]_vars

\* The first cycle has ended and replaced the placeholder snapshot.
C16_CycleCompleted ==
    /\ mounted
    /\ Idle
    /\ ~loading
    /\ error = Null
    /\ ~debugData.isNull
    /\ products # INITIAL_PRODUCTS
    /\ rendered = INITIAL_PRODUCTS

\* ------------------------------------------------------------------------
\* C17
\* ------------------------------------------------------------------------

\* C17: loading is true exactly while a cycle is in flight: in every state
\* after the mount, also one reached through resetData while an earlier
\* cycle has not ended, loading is false only when no cycle is running, and
\* loading is true only when one is.
C17_LoadingWhileInFlight ==
    mounted => (loading <=> ~Idle)

\* ------------------------------------------------------------------------
\* C18
\* ------------------------------------------------------------------------

\* The call resolves to one unit of prods: one product has the id, the index
\* is inside its sizes, and one unit of that bucket has the unit id.
Resolves(prods, call) ==
    /\ Cardinality({ i \in 1..Len(prods) : prods[i].id = call.productId }) = 1
    /\ \A i \in 1..Len(prods) :
          prods[i].id = call.productId =>
              /\ call.sizeIndex >= 0
              /\ call.sizeIndex < Len(prods[i].sizes)
              /\ Cardinality({ k \in 1..Len(prods[i].sizes[call.sizeIndex + 1].units) :
                    prods[i].sizes[call.sizeIndex + 1].units[k].id = call.unitId }) = 1

\* The status in prods of the unit a call resolves to.
StatusOf(prods, call) ==
    LET i     == CHOOSE i \in 1..Len(prods) : prods[i].id = call.productId
        units == prods[i].sizes[call.sizeIndex + 1].units
        k     == CHOOSE k \in 1..Len(units) : units[k].id = call.unitId
    IN  units[k].status

SameUnit(a, b) ==
    /\ a.productId = b.productId
    /\ a.sizeIndex = b.sizeIndex
    /\ a.unitId = b.unitId

\* The snapshot a call hands to setProducts.
Mapped(prods, call) ==
    UpdateProductStock(prods, call.productId, call.sizeIndex, call.unitId,
                       call.newStatus).products

\* C18: when the stored snapshot is what a call on a unit of the captured
\* snapshot made of it (so no refresh has come in between), a call on
\* another unit of the captured snapshot, from a handler of the same render,
\* leaves both units with the status their calls asked for.
C18_NoToggleLost ==
    [][(rendered' = rendered /\ products' # products) =>
        \A b \in Calls :
            (/\ Resolves(rendered, b)
             /\ QueueUpdateProductStock(b.productId, b.sizeIndex, b.unitId, b.newStatus))
            => \A a \in Calls :
                  (/\ Resolves(rendered, a)
                   /\ ~SameUnit(a, b)
                   /\ products = Mapped(rendered, a))
                  => /\ StatusOf(products', b) = b.newStatus
                     /\ StatusOf(products', a) = a.newStatus
      ]_vars

====
